---- MODULE Spec2Model ----
(***************************************************************************)
(* Model of surok/discovery.py: the discovery registry (Discovery), the    *)
(* DNS backend (DiscoveryMesos), the Marathon backend (DiscoveryMarathon)  *)
(* and the null backend (DiscoveryNone).                                   *)
(*                                                                         *)
(* Python strings are sequences of one-character strings, so that split,   *)
(* join, slicing, startswith and endswith are computed as Python computes  *)
(* them.  A Python dict is a function whose DOMAIN is its key set; a dict  *)
(* that is later turned into a list with list(d.values()) is kept as the   *)
(* sequence of its values in insertion order.  Python's None and a missing *)
(* key are the record Absent; a present value v is Some(v).                *)
(***************************************************************************)
EXTENDS Integers, Sequences, FiniteSets, TLC

VARIABLES
    tasks,      \* DiscoveryMarathon._tasks : the cached task list
    ports,      \* DiscoveryMarathon._ports : app id -> cached port mappings
    call,       \* the last operation called and the inputs it received
    ret,        \* what Discovery.resolve returned (or that it raised)
    bret,       \* what the backend's resolve returned, before compatible()
    log         \* the log lines the last operation wrote

vars == <<tasks, ports, call, ret, bret, log>>

-----------------------------------------------------------------------------
(* Bounds of the model *)

\* the longest app['services'] list an app carries
MaxServices == 2

-----------------------------------------------------------------------------
(* Python values *)

Absent == [has |-> FALSE, val |-> <<>>]
Some(v) == [has |-> TRUE, val |-> v]

\* d[k] = v on a dict d
Put(d, k, v) == [x \in (DOMAIN d) \cup {k} |-> IF x = k THEN v ELSE d[x]]

EmptyDict == [x \in {} |-> 0]

\* seq[::-1]
Reverse(s) == [i \in 1..Len(s) |-> s[Len(s) + 1 - i]]

\* s.split(c), c a single character
RECURSIVE Split(_, _)
Split(s, c) ==
    IF \E i \in 1..Len(s) : s[i] = c
    THEN LET i == CHOOSE k \in 1..Len(s) :
                      s[k] = c /\ \A j \in 1..(k - 1) : s[j] # c
         IN  <<SubSeq(s, 1, i - 1)>> \o Split(SubSeq(s, i + 1, Len(s)), c)
    ELSE <<s>>

\* c.join(parts)
RECURSIVE Join(_, _)
Join(parts, c) ==
    IF Len(parts) = 0 THEN <<>>
    ELSE IF Len(parts) = 1 THEN parts[1]
    ELSE parts[1] \o <<c>> \o Join(Tail(parts), c)

\* s[n:]
SliceFrom(s, n) == IF n >= Len(s) THEN <<>> ELSE SubSeq(s, n + 1, Len(s))

\* s[:-1]
DropLast(s) == IF Len(s) = 0 THEN <<>> ELSE SubSeq(s, 1, Len(s) - 1)

StartsWith(s, p) == Len(p) <= Len(s) /\ SubSeq(s, 1, Len(p)) = p

EndsWithStar(s) == Len(s) > 0 /\ s[Len(s)] = "*"

\* list.index(x): the first position of x, 0 when Python raises ValueError
IndexOf(s, x) ==
    IF \E i \in 1..Len(s) : s[i] = x
    THEN CHOOSE i \in 1..Len(s) : s[i] = x /\ \A j \in 1..(i - 1) : s[j] # x
    ELSE 0

\* str(port): ports are tagged with their Python type
IntPort(n) == [t |-> "int", v |-> n]
PyStr(p) == [t |-> "str", v |-> p.v]

-----------------------------------------------------------------------------
(* DiscoveryMarathon._test_mask *)

TestMask(mask, value) ==
    (EndsWithStar(mask) /\ StartsWith(value, DropLast(mask))) \/ mask = value

-----------------------------------------------------------------------------
(* Result structures shared by the two live backends *)

\* serv[hostname][prot] is a list of ports or a dict port name -> port
ListSlot(l) == [shape |-> "list", list |-> l, map |-> EmptyDict]
MapSlot(m) == [shape |-> "map", list |-> <<>>, map |-> m]

LogLine(level, msg, about) == [level |-> level, msg |-> msg, about |-> about]

\* the state of one resolve() run: the hosts dict built so far, the serv dict
\* of the service being filled (its values in insertion order), whether an
\* exception has left the function, and the lines logged.  origin is
\* bookkeeping of the model: the index in app['services'] of the service
\* spec that last assigned hosts[name].
StartRun == [raised |-> FALSE, exc |-> "", hosts |-> EmptyDict,
             origin |-> EmptyDict, serv |-> <<>>, log |-> <<>>]

\* an exception of class exc leaves resolve()
Raise(st, exc) == [st EXCEPT !.raised = TRUE, !.exc = exc]

HostIndex(serv, hostname) ==
    IF \E i \in 1..Len(serv) : serv[i].name = hostname
    THEN CHOOSE i \in 1..Len(serv) : serv[i].name = hostname
    ELSE 0

\* DiscoveryTemplate.do_query_a: env.a[fqdn] is the answer of the resolver,
\* Absent when it raises a DNSException
QueryA(env, fqdn) == IF env.a[fqdn].has THEN env.a[fqdn].val ELSE <<>>

QueryALog(env, fqdn) ==
    IF env.a[fqdn].has THEN <<>> ELSE <<LogLine("error", "resolve", fqdn)>>

\* if hostname not in serv: serv[hostname] = {'name': ..., 'ip': do_query_a()}
EnsureHost(st, hostname, env) ==
    IF HostIndex(st.serv, hostname) # 0 THEN st
    ELSE [st EXCEPT !.serv = Append(@, [name |-> hostname,
                                        ip |-> QueryA(env, hostname),
                                        prots |-> EmptyDict]),
                    !.log = @ \o QueryALog(env, hostname)]

\* serv[hostname].setdefault(prot, {}); serv[hostname][prot][port_name] = port
\* (a list already in the slot makes the item assignment raise TypeError)
NamedPut(st, hostname, prot, port_name, port, env) ==
    LET st1 == EnsureHost(st, hostname, env)
        i == HostIndex(st1.serv, hostname)
        e == st1.serv[i]
        slot == IF prot \in DOMAIN e.prots THEN e.prots[prot] ELSE MapSlot(EmptyDict)
    IN  IF slot.shape # "map" THEN Raise(st1, "TypeError")
        ELSE [st1 EXCEPT !.serv[i].prots =
                  Put(e.prots, prot, MapSlot(Put(slot.map, port_name, port)))]

\* the raw branch written with the named branch's default:
\* serv[hostname].setdefault(prot, {}); serv[hostname][prot].append(port)
RawAppendDictDefault(st, hostname, prot, port, env) ==
    LET st1 == EnsureHost(st, hostname, env)
        i == HostIndex(st1.serv, hostname)
        e == st1.serv[i]
        slot == IF prot \in DOMAIN e.prots THEN e.prots[prot] ELSE MapSlot(EmptyDict)
    IN  IF slot.shape # "list"
        THEN Raise([st1 EXCEPT !.serv[i].prots = Put(e.prots, prot, slot)],
                   "AttributeError")
        ELSE [st1 EXCEPT !.serv[i].prots =
                  Put(e.prots, prot, ListSlot(Append(slot.list, port)))]

\* serv[hostname].setdefault(prot, []); serv[hostname][prot].append(port)
\* (a dict already in the slot makes append/extend raise AttributeError)
RawAppend(st, hostname, prot, port, env) ==
    LET st1 == EnsureHost(st, hostname, env)
        i == HostIndex(st1.serv, hostname)
        e == st1.serv[i]
        slot == IF prot \in DOMAIN e.prots THEN e.prots[prot] ELSE ListSlot(<<>>)
    IN  IF slot.shape # "list" THEN Raise(st1, "AttributeError")
        ELSE [st1 EXCEPT !.serv[i].prots =
                  Put(e.prots, prot, ListSlot(Append(slot.list, port)))]

\* service.get('group', app['group']) / service.get('group', app.get('group'))
EffectiveGroup(app, service) ==
    IF service.group.has THEN service.group ELSE app.group

\* the missing group left to raise instead of being logged and skipped
GroupNotFoundRaises(st, service) == Raise(st, "KeyError")

\* self._logger.error('Group for service ... not found'); continue
GroupNotFound(st, service) ==
    [st EXCEPT !.log = Append(@, LogLine("error", "group not found", service.name))]

-----------------------------------------------------------------------------
(* DiscoveryMarathon *)

\* the body of: for app in requests.get(.../v2/apps).json()['apps']
AppPortMappings(app) ==
    IF app.container.has /\ app.container.val.type = "DOCKER"
    THEN (IF app.container.val.portMappings.has
          THEN app.container.val.portMappings.val ELSE <<>>)
    ELSE <<>>

RECURSIVE ParsePorts(_, _)
ParsePorts(apps, acc) ==
    IF Len(apps) = 0 THEN acc
    ELSE ParsePorts(Tail(apps), Put(acc, Head(apps).id, AppPortMappings(Head(apps))))

\* for port_mask in service.get(prot, []): if self._test_mask(...): ...
RECURSIVE MarathonMasks(_, _, _, _, _, _, _)
MarathonMasks(st, masks, hostname, prot, port_name, port, env) ==
    IF Len(masks) = 0 \/ st.raised THEN st
    ELSE MarathonMasks(
             IF TestMask(Head(masks), port_name)
             THEN NamedPut(st, hostname, prot, port_name, port, env)
             ELSE st,
             Tail(masks), hostname, prot, port_name, port, env)

\* one iteration of: for task_port in self._ports[task['appId']]
MarathonPort(st, service, task, task_port, env) ==
    LET prot == task_port.protocol
        port_name == task_port.name
        idx == IndexOf(task.servicePorts, task_port.servicePort)
    IN  IF idx = 0 THEN Raise(st, "ValueError")
        ELSE IF idx > Len(task.ports) THEN Raise(st, "IndexError")
        ELSE IF prot \notin DOMAIN service.prots THEN st
        ELSE IF Len(service.prots[prot]) > 0
        THEN MarathonMasks(st, service.prots[prot], task.host, prot, port_name,
                           task.ports[idx], env)
        ELSE RawAppend(st, task.host, prot, task.ports[idx], env)

RECURSIVE MarathonPorts(_, _, _, _, _)
MarathonPorts(st, service, task, task_ports, env) ==
    IF Len(task_ports) = 0 \/ st.raised THEN st
    ELSE MarathonPorts(MarathonPort(st, service, task, Head(task_ports), env),
                       service, task, Tail(task_ports), env)

\* '/' + '/'.join(group.split('.')[::-1]) + '/'
GroupPath(group) == <<"/">> \o Join(Reverse(Split(group, ".")), "/") \o <<"/">>

\* '.'.join(task['appId'][len(group):].split('/')[::-1])
ServiceNameOf(appId, path) ==
    Join(Reverse(Split(SliceFrom(appId, Len(path)), "/")), ".")

\* one iteration of: for task in self._tasks
MarathonTask(st, k, service, path, task, cache, env) ==
    IF ~TestMask(path \o service.name, task.appId) THEN st
    ELSE IF task.appId \notin DOMAIN cache.ports THEN Raise(st, "KeyError")
    ELSE LET name == ServiceNameOf(task.appId, path)
             st1 == MarathonPorts([st EXCEPT !.serv = <<>>], service, task,
                                  cache.ports[task.appId], env)
         IN  IF st1.raised THEN st1
             ELSE [st1 EXCEPT !.hosts = Put(@, name, st1.serv),
                              !.origin = Put(@, name, k)]

RECURSIVE MarathonTasks(_, _, _, _, _, _, _)
MarathonTasks(st, k, service, path, todo, cache, env) ==
    IF Len(todo) = 0 \/ st.raised THEN st
    ELSE MarathonTasks(MarathonTask(st, k, service, path, Head(todo), cache, env),
                       k, service, path, Tail(todo), cache, env)

\* one iteration of: for service in app['services']
MarathonService(st, app, k, cache, env) ==
    LET service == app.services[k]
        group == EffectiveGroup(app, service)
    IN  IF ~group.has THEN GroupNotFound(st, service)
        ELSE MarathonTasks(st, k, service, GroupPath(group.val), cache.tasks,
                           cache, env)

RECURSIVE MarathonLoop(_, _, _, _, _)
MarathonLoop(st, app, k, cache, env) ==
    IF k > Len(app.services) \/ st.raised THEN st
    ELSE MarathonLoop(MarathonService(st, app, k, cache, env), app, k + 1, cache, env)

\* DiscoveryMarathon.resolve
MarathonResolve(app, cache, env) == MarathonLoop(StartRun, app, 1, cache, env)

-----------------------------------------------------------------------------
(* DiscoveryTemplate.do_query_srv and DiscoveryMesos *)

\* str(rdata).split() of an SRV record is [priority, weight, port, target];
\* the entry kept is {'name': info[3][:-1], 'port': info[2]}
SrvEntry(rdata) == [name |-> DropLast(rdata.target), port |-> PyStr(rdata.port)]

\* env.srv maps the names of the zone to their SRV record sets; a name the
\* zone does not hold makes resolver.query raise a DNSException
QuerySrv(env, fqdn) ==
    IF fqdn \in DOMAIN env.srv
    THEN [i \in 1..Len(env.srv[fqdn]) |-> SrvEntry(env.srv[fqdn][i])]
    ELSE <<>>

QuerySrvLog(env, fqdn) ==
    IF fqdn \in DOMAIN env.srv THEN <<>> ELSE <<LogLine("error", "resolve", fqdn)>>

ProtChars(prot) == IF prot = "tcp" THEN <<"t", "c", "p">> ELSE <<"u", "d", "p">>

\* '_{0}._{1}.{2}._{3}.{4}'.format(port_name, name, group, prot, domain)
PortFqdn(port_name, name, group, prot, domain) ==
    <<"_">> \o port_name \o <<".", "_">> \o name \o <<".">> \o group
            \o <<".", "_">> \o ProtChars(prot) \o <<".">> \o domain

\* '_{0}.{1}._{2}.{3}'.format(name, group, prot, domain)
GroupFqdn(name, group, prot, domain) ==
    <<"_">> \o name \o <<".">> \o group \o <<".", "_">> \o ProtChars(prot)
            \o <<".">> \o domain

\* for hostname, port in [...do_query_srv(...)]: ... [prot][port_name] = port
RECURSIVE MesosNamedAnswers(_, _, _, _, _)
MesosNamedAnswers(st, answers, prot, port_name, env) ==
    IF Len(answers) = 0 \/ st.raised THEN st
    ELSE MesosNamedAnswers(
             NamedPut(st, Head(answers).name, prot, port_name, Head(answers).port, env),
             Tail(answers), prot, port_name, env)

\* for hostname, port in [...do_query_srv(...)]: ... [prot].append(port)
RECURSIVE MesosRawAnswers(_, _, _, _)
MesosRawAnswers(st, answers, prot, env) ==
    IF Len(answers) = 0 \/ st.raised THEN st
    ELSE MesosRawAnswers(
             RawAppend(st, Head(answers).name, prot, Head(answers).port, env),
             Tail(answers), prot, env)

\* for port_name in ports
RECURSIVE MesosPortNames(_, _, _, _, _, _, _)
MesosPortNames(st, names, name, group, prot, domain, env) ==
    IF Len(names) = 0 \/ st.raised THEN st
    ELSE LET fqdn == PortFqdn(Head(names), name, group, prot, domain)
             st1 == [st EXCEPT !.log = @ \o QuerySrvLog(env, fqdn)]
         IN  MesosPortNames(
                 MesosNamedAnswers(st1, QuerySrv(env, fqdn), prot, Head(names), env),
                 Tail(names), name, group, prot, domain, env)

\* one iteration of: for prot in [x for x in ['tcp', 'udp'] if x in service]
MesosProt(st, service, group, prot, domain, env) ==
    IF prot \notin DOMAIN service.prots \/ st.raised THEN st
    ELSE IF Len(service.prots[prot]) > 0
    THEN MesosPortNames(st, service.prots[prot], service.name, group, prot, domain, env)
    ELSE LET fqdn == GroupFqdn(service.name, group, prot, domain)
             st1 == [st EXCEPT !.log = @ \o QuerySrvLog(env, fqdn)]
         IN  MesosRawAnswers(st1, QuerySrv(env, fqdn), prot, env)

\* the service's key assigned only when a host was found
MesosServiceDropsEmpty(st, app, k, domain, env) ==
    LET service == app.services[k]
        group == EffectiveGroup(app, service)
    IN  IF ~group.has THEN GroupNotFound(st, service)
        ELSE LET st1 == MesosProt([st EXCEPT !.serv = <<>>], service, group.val,
                                  "tcp", domain, env)
                 st2 == MesosProt(st1, service, group.val, "udp", domain, env)
             IN  IF st2.raised \/ Len(st2.serv) = 0 THEN st2
                 ELSE [st2 EXCEPT !.hosts = Put(@, service.name, st2.serv),
                                  !.origin = Put(@, service.name, k)]

\* one iteration of: for service in app['services']
MesosService(st, app, k, domain, env) ==
    LET service == app.services[k]
        group == EffectiveGroup(app, service)
    IN  IF ~group.has THEN GroupNotFound(st, service)
        ELSE LET st1 == MesosProt([st EXCEPT !.serv = <<>>], service, group.val,
                                  "tcp", domain, env)
                 st2 == MesosProt(st1, service, group.val, "udp", domain, env)
             IN  IF st2.raised THEN st2
                 ELSE [st2 EXCEPT !.hosts = Put(@, service.name, st2.serv),
                                  !.origin = Put(@, service.name, k)]

RECURSIVE MesosLoop(_, _, _, _, _)
MesosLoop(st, app, k, domain, env) ==
    IF k > Len(app.services) \/ st.raised THEN st
    ELSE MesosLoop(MesosService(st, app, k, domain, env), app, k + 1, domain, env)

\* DiscoveryMesos.resolve
MesosResolve(app, domain, env) == MesosLoop(StartRun, app, 1, domain, env)

\* DiscoveryNone.resolve
NoneResolve(app) == StartRun

-----------------------------------------------------------------------------
(* Discovery.compatible *)

CompatRecord(host, port) == [name |-> host.name, ip |-> host.ip, port |-> port]

\* the body of: for host in hosts[service].  acc is compatible_hosts[service]
\* before the iteration; both branches first assign it a fresh [] or {}, so
\* what earlier hosts stored is dropped.
CompatHost(acc, host) ==
    LET slot == IF "tcp" \in DOMAIN host.prots THEN host.prots["tcp"] ELSE ListSlot(<<>>)
    IN  IF slot.shape = "list"
        THEN ListSlot(<<>> \o [i \in 1..Len(slot.list) |->
                                   CompatRecord(host, PyStr(slot.list[i]))])
        ELSE MapSlot([p \in DOMAIN slot.map |->
                          <<>> \o <<CompatRecord(host, slot.map[p])>>])

RECURSIVE CompatHosts(_, _)
CompatHosts(acc, hostlist) ==
    IF Len(hostlist) = 0 THEN acc
    ELSE CompatHosts(Some(CompatHost(acc, Head(hostlist))), Tail(hostlist))

\* Discovery.compatible, version '0.7': a service with no host gets no key
CompatLegacy(hosts) ==
    [s \in {x \in DOMAIN hosts : CompatHosts(Absent, hosts[x]).has} |->
         CompatHosts(Absent, hosts[s]).val]

Compatible(hosts, version) ==
    IF version = "0.7"
    THEN [shape |-> "legacy", hosts |-> EmptyDict, legacy |-> CompatLegacy(hosts)]
    ELSE [shape |-> "hosts", hosts |-> hosts, legacy |-> EmptyDict]

-----------------------------------------------------------------------------
(* Discovery: the registry *)

Registry == {"mesos_dns", "marathon_api", "none"}

\* DiscoveryTemplate.enabled reads the backend's 'enabled' flag (en);
\* DiscoveryNone.enabled is always True
Enabled(discovery, en) == IF discovery = "none" THEN TRUE ELSE en

\* self._discoveries[discovery].resolve(app)
BackendResolve(discovery, app, domain, cache, env) ==
    CASE discovery = "mesos_dns" -> MesosResolve(app, domain, env)
      [] discovery = "marathon_api" -> MarathonResolve(app, cache, env)
      [] OTHER -> NoneResolve(app)

\* what is recorded of the backend: whose enabled() and whose resolve() were
\* invoked, and what resolve() returned
NotAsked == [asked |-> {}, resolved |-> {}, raised |-> FALSE, exc |-> "",
             hosts |-> EmptyDict, origin |-> EmptyDict]
AskedOnly(discovery) == [NotAsked EXCEPT !.asked = {discovery}]
Resolved(discovery, run) ==
    [asked |-> {discovery}, resolved |-> {discovery}, raised |-> run.raised,
     exc |-> run.exc,
     hosts |-> IF run.raised THEN EmptyDict ELSE run.hosts,
     origin |-> IF run.raised THEN EmptyDict ELSE run.origin]

\* return {}
EmptyReturn == [raised |-> FALSE, shape |-> "hosts", hosts |-> EmptyDict,
                legacy |-> EmptyDict]
Raised == [raised |-> TRUE, shape |-> "none", hosts |-> EmptyDict,
           legacy |-> EmptyDict]
Returned(value) == [raised |-> FALSE, shape |-> value.shape, hosts |-> value.hosts,
                    legacy |-> value.legacy]

Outcome(r, b, l) == [ret |-> r, bret |-> b, log |-> l]

\* Discovery.resolve without the enabled() test
DiscoveryResolveIgnoresEnabled(app, dd, en, ver, domain, cache, env) ==
    LET discovery == IF app.discovery.has THEN app.discovery.val ELSE dd
        run == BackendResolve(discovery, app, domain, cache, env)
    IN  IF Len(app.services) = 0 THEN Outcome(EmptyReturn, NotAsked, <<>>)
        ELSE IF discovery \notin Registry
        THEN Outcome(EmptyReturn, NotAsked,
                     <<LogLine("warning", "is not present", <<discovery>>)>>)
        ELSE IF run.raised
        THEN Outcome(Raised, Resolved(discovery, run), run.log)
        ELSE Outcome(Returned(Compatible(run.hosts, IF ver = "" THEN "0.8" ELSE ver)),
                     Resolved(discovery, run), run.log)

\* Discovery.resolve.  dd is config['default_discovery'], en the selected
\* backend's 'enabled' flag, ver config.get('version').
DiscoveryResolve(app, dd, en, ver, domain, cache, env) ==
    LET discovery == IF app.discovery.has THEN app.discovery.val ELSE dd
        run == BackendResolve(discovery, app, domain, cache, env)
    IN  IF Len(app.services) = 0 THEN Outcome(EmptyReturn, NotAsked, <<>>)
        ELSE IF discovery \notin Registry
        THEN Outcome(EmptyReturn, NotAsked,
                     <<LogLine("warning", "is not present", <<discovery>>)>>)
        ELSE IF ~Enabled(discovery, en)
        THEN Outcome(EmptyReturn, AskedOnly(discovery),
                     <<LogLine("error", "is disabled", <<discovery>>)>>)
        ELSE IF run.raised
        THEN Outcome(Raised, Resolved(discovery, run), run.log)
        ELSE Outcome(Returned(Compatible(run.hosts, ver)), Resolved(discovery, run),
                     run.log)

\* update_data with both requests under one try: a failed apps request skips
\* the tasks request
MarathonUpdateOneTry(cache, appsResp, tasksResp) ==
    [ports |-> IF appsResp.has THEN ParsePorts(appsResp.val, EmptyDict) ELSE cache.ports,
     tasks |-> IF appsResp.has /\ tasksResp.has THEN tasksResp.val ELSE cache.tasks,
     log |-> <<>>,
     raised |-> FALSE]

\* DiscoveryMarathon.update_data.  appsResp and tasksResp are the answers of
\* the two requests, Absent when the request (or its decoding) raises.
MarathonUpdate(cache, appsResp, tasksResp) ==
    [ports |-> IF appsResp.has THEN ParsePorts(appsResp.val, EmptyDict) ELSE cache.ports,
     tasks |-> IF tasksResp.has THEN tasksResp.val ELSE cache.tasks,
     log |-> (IF appsResp.has THEN <<>>
              ELSE <<LogLine("warning", "apps request failed", <<>>)>>)
             \o (IF tasksResp.has THEN <<>>
                 ELSE <<LogLine("warning", "tasks request failed", <<>>)>>),
     raised |-> FALSE]

-----------------------------------------------------------------------------
(* The inputs the operations are called with *)

Str_h1 == <<"h", "1">>
Str_h2 == <<"h", "2">>
Str_web == <<"w", "e", "b">>
Str_adm == <<"a", "d", "m">>
Str_dns == <<"d", "n", "s">>
Str_a == <<"a">>
Str_b == <<"b">>
Str_g == <<"g">>
Str_pg == <<"p", ".", "g">>

\* config['mesos']['domain']
MesosDomain == <<"m">>

\* --- the Marathon API ---

AppIdA == <<"/", "g", "/", "p", "/", "a">>

Mapping(name, prot, sp) == [name |-> name, protocol |-> prot, servicePort |-> sp]

\* the app as first deployed, and as redeployed with another service port
\* for its second mapping
MappingsV1 == <<Mapping(Str_web, "tcp", 100), Mapping(Str_adm, "tcp", 200),
                Mapping(Str_dns, "udp", 300)>>
MappingsV2 == <<Mapping(Str_web, "tcp", 100), Mapping(Str_adm, "tcp", 400),
                Mapping(Str_dns, "udp", 300)>>

DockerApp(id, mappings) ==
    [id |-> id, container |-> Some([type |-> "DOCKER", portMappings |-> Some(mappings)])]

Task(appId, host, base) ==
    [appId |-> appId, host |-> host,
     ports |-> <<IntPort(base), IntPort(base + 1), IntPort(base + 2)>>,
     servicePorts |-> <<100, 200, 300>>]

TaskUniverse == <<Task(AppIdA, Str_h1, 31000), Task(AppIdA, Str_h2, 31010),
                  Task(AppIdA, Str_h1, 31020)>>

\* the sub-list of seq at the positions in keep
RECURSIVE SubList(_, _, _)
SubList(seq, keep, i) ==
    IF i > Len(seq) THEN <<>>
    ELSE (IF i \in keep THEN <<seq[i]>> ELSE <<>>) \o SubList(seq, keep, i + 1)

\* what the cluster can look like when update_data asks: no app, or the app
\* (in either definition) with any of its tasks running
Snapshots ==
    {[apps |-> <<>>, tasks |-> <<>>]}
    \cup {[apps |-> <<DockerApp(AppIdA, m)>>, tasks |-> SubList(TaskUniverse, keep, 1)] :
              m \in {MappingsV1, MappingsV2},
              keep \in SUBSET (1..Len(TaskUniverse))}

\* --- the DNS zone ---

\* the longest SRV record set the zone answers with
MaxRecords == 2

Instance(port_name, prot, target, port) ==
    [service |-> Str_a, group |-> Str_pg, port_name |-> port_name, prot |-> prot,
     rdata |-> [priority |-> 0, weight |-> 0, port |-> IntPort(port),
                target |-> target \o <<".">>]]

InstanceUniverse == <<Instance(Str_web, "tcp", Str_h1, 31000),
                      Instance(Str_adm, "tcp", Str_h1, 31001),
                      Instance(Str_web, "tcp", Str_h2, 31010),
                      Instance(Str_web, "tcp", Str_h1, 31020),
                      Instance(Str_dns, "udp", Str_h1, 31002)>>

\* the two names an instance is published under
InstanceNames(i) ==
    {PortFqdn(i.port_name, i.service, i.group, i.prot, MesosDomain),
     GroupFqdn(i.service, i.group, i.prot, MesosDomain)}

RECURSIVE RecordsAt(_, _, _)
RecordsAt(fqdn, keep, k) ==
    IF k > Len(InstanceUniverse) THEN <<>>
    ELSE (IF k \in keep /\ fqdn \in InstanceNames(InstanceUniverse[k])
          THEN <<InstanceUniverse[k].rdata>> ELSE <<>>)
         \o RecordsAt(fqdn, keep, k + 1)

ZoneOf(keep) ==
    [fqdn \in UNION {InstanceNames(InstanceUniverse[k]) : k \in keep} |->
         RecordsAt(fqdn, keep, 1)]

\* A records: h1 resolves, the lookup of h2 fails
ARecords ==
    [h \in {Str_h1, Str_h2} |->
         IF h = Str_h1 THEN Some(<<"10.0.0.1">>) ELSE Absent]

NoZone == [srv |-> EmptyDict, a |-> ARecords]

Envs ==
    {[srv |-> ZoneOf(keep), a |-> ARecords] :
         keep \in {k \in SUBSET (1..Len(InstanceUniverse)) : Cardinality(k) <= MaxRecords}}

\* --- apps ---

Service(name, group, prots) == [name |-> name, group |-> group, prots |-> prots]

ServiceUniverse ==
    {Service(Str_a, Absent, [p \in {"tcp"} |-> <<>>]),
     Service(Str_a, Absent, [p \in {"tcp", "udp"} |->
                                 IF p = "tcp" THEN <<Str_web, <<"a", "*">>>> ELSE <<>>]),
     Service(Str_a, Some(Str_pg), [p \in {"tcp"} |-> <<Str_web>>]),
     Service(Str_b, Some(Str_g), [p \in {"tcp"} |-> <<>>]),
     Service(<<"*">>, Some(Str_g), [p \in {"udp"} |-> <<>>])}

ServiceLists == UNION {[1..n -> ServiceUniverse] : n \in 0..MaxServices}

Apps ==
    {[group |-> g, services |-> ss, discovery |-> d, conf_name |-> <<"c">>] :
         g \in {Absent, Some(Str_pg)},
         ss \in ServiceLists,
         d \in {Absent, Some("none"), Some("consul")}}

Defaults == {"mesos_dns", "marathon_api"}
Versions == {"0.7", "0.8"}

-----------------------------------------------------------------------------
(* The state machine *)

NoApp == [group |-> Absent, services |-> <<>>, discovery |-> Absent,
          conf_name |-> <<>>]

\* between two calls the caller's loop holds no call and no result
NoCall == [op |-> "idle", app |-> NoApp, dd |-> "", en |-> FALSE, ver |-> "",
           env |-> NoZone, apps |-> Absent, tasks |-> Absent]

Init ==
    /\ tasks = <<>>
    /\ ports = EmptyDict
    /\ call = NoCall
    /\ ret = EmptyReturn
    /\ bret = NotAsked
    /\ log = <<>>

Cache == [tasks |-> tasks, ports |-> ports]

Selected(app, dd) == IF app.discovery.has THEN app.discovery.val ELSE dd

\* Discovery.resolve(app).  An input the call does not read is not drawn.
Resolve ==
    /\ call.op = "idle"
    /\ \E app \in Apps :
       \E dd \in (IF Len(app.services) = 0 THEN {""} ELSE Defaults) :
       \E en \in (IF Selected(app, dd) \in {"mesos_dns", "marathon_api"}
                  THEN BOOLEAN ELSE {FALSE}) :
       \E ver \in (IF Selected(app, dd) \in Registry /\ Enabled(Selected(app, dd), en)
                   THEN Versions ELSE {""}) :
       \E env \in (IF Selected(app, dd) = "mesos_dns" /\ en THEN Envs ELSE {NoZone}) :
           LET out == DiscoveryResolve(app, dd, en, ver, MesosDomain, Cache, env)
           IN  /\ call' = [NoCall EXCEPT !.op = "resolve", !.app = app, !.dd = dd,
                                         !.en = en, !.ver = ver, !.env = env]
               /\ ret' = out.ret
               /\ bret' = out.bret
               /\ log' = out.log
               /\ UNCHANGED <<tasks, ports>>

\* Discovery.update_data(): config.update_apps() (the configuration's own
\* refresh, which touches nothing here), then every enabled backend's
\* update_data; only the Marathon backend's does anything.
UpdateData ==
    /\ call.op = "idle"
    /\ \E en \in BOOLEAN :
       \E snap \in (IF en THEN Snapshots ELSE {[apps |-> <<>>, tasks |-> <<>>]}) :
       \E appsOk \in (IF en THEN BOOLEAN ELSE {FALSE}) :
       \E tasksOk \in (IF en THEN BOOLEAN ELSE {FALSE}) :
           LET apps == IF appsOk THEN Some(snap.apps) ELSE Absent
               tsks == IF tasksOk THEN Some(snap.tasks) ELSE Absent
               out == MarathonUpdate(Cache, apps, tsks)
           IN  /\ call' = [NoCall EXCEPT !.op = "update_data", !.en = en,
                                         !.apps = apps, !.tasks = tsks]
               /\ ports' = IF en THEN out.ports ELSE ports
               /\ tasks' = IF en THEN out.tasks ELSE tasks
               /\ log' = IF en THEN out.log ELSE <<>>
               /\ ret' = [EmptyReturn EXCEPT !.raised = en /\ out.raised, !.shape = "none"]
               /\ bret' = NotAsked

\* the caller takes the result and goes back to its loop; the caches stay
Return ==
    /\ call.op # "idle"
    /\ call' = NoCall
    /\ ret' = EmptyReturn
    /\ bret' = NotAsked
    /\ log' = <<>>
    /\ UNCHANGED <<tasks, ports>>

Next == Resolve \/ UpdateData \/ Return

Spec == Init /\ [][Next]_vars

-----------------------------------------------------------------------------
(* What the properties below speak about *)

In(seq, x) == \E i \in 1..Len(seq) : seq[i] = x

ResolveDone == call.op = "resolve"
Delegated(discovery) == ResolveDone /\ bret.resolved = {discovery}
LiveDone == Delegated("mesos_dns") \/ Delegated("marathon_api")

ServiceAt(k) == call.app.services[k]
ServiceIndexes == 1..Len(call.app.services)
Grouped(k) == EffectiveGroup(call.app, ServiceAt(k)).has
GroupOf(k) == EffectiveGroup(call.app, ServiceAt(k)).val

\* the cached task t matches the service spec k, and the name it is listed under
TaskIndexes == 1..Len(tasks)
Matches(k, t) ==
    Grouped(k) /\ TestMask(GroupPath(GroupOf(k)) \o ServiceAt(k).name, tasks[t].appId)
NameOf(k, t) == ServiceNameOf(tasks[t].appId, GroupPath(GroupOf(k)))

\* the port mappings of the cached task t, and those the service spec k accepts
MappingsOf(t) == IF tasks[t].appId \in DOMAIN ports THEN ports[tasks[t].appId] ELSE <<>>
NoMasks(k, prot) == prot \in DOMAIN ServiceAt(k).prots /\ Len(ServiceAt(k).prots[prot]) = 0
Accepts(k, m) ==
    /\ m.protocol \in DOMAIN ServiceAt(k).prots
    /\ \/ NoMasks(k, m.protocol)
       \/ \E i \in 1..Len(ServiceAt(k).prots[m.protocol]) :
              TestMask(ServiceAt(k).prots[m.protocol][i], m.name)
ServicePortMissing(t, m) == ~In(tasks[t].servicePorts, m.servicePort)
LivePort(t, m) == tasks[t].ports[IndexOf(tasks[t].servicePorts, m.servicePort)]

\* the entries of a host list that carry the hostname
EntriesOf(hostlist, hostname) == {i \in 1..Len(hostlist) : hostlist[i].name = hostname}

-----------------------------------------------------------------------------
(* C1 *)

\* C1: in the Marathon backend's resolve, a port mapping whose servicePort is
\* not in a matching task's servicePorts list is skipped: resolve does not
\* raise, and every matching task's service is still returned.
C1_MissingServicePortIsSkipped ==
    (/\ Delegated("marathon_api")
     /\ \A t \in TaskIndexes : tasks[t].appId \in DOMAIN ports
     /\ \E k \in ServiceIndexes, t \in TaskIndexes :
            /\ Matches(k, t)
            /\ \E i \in 1..Len(MappingsOf(t)) : ServicePortMissing(t, MappingsOf(t)[i]))
    => /\ ~bret.raised
       /\ \A k \in ServiceIndexes, t \in TaskIndexes :
              Matches(k, t) => NameOf(k, t) \in DOMAIN bret.hosts

-----------------------------------------------------------------------------
(* C2 *)

\* C2: DiscoveryMarathon.update_data never raises, and each of its two
\* requests decides its own cache alone: a failed apps request leaves _ports
\* as it was and a successful one replaces it by the fetched table, a failed
\* tasks request leaves _tasks as it was and a successful one replaces it by
\* the fetched list, whatever the other request did.
C2_UpdateRequestsIndependent ==
    [][(call'.op = "update_data" /\ call'.en)
       => /\ ~ret'.raised
          /\ ports' = IF call'.apps.has
                      THEN ParsePorts(call'.apps.val, EmptyDict) ELSE ports
          /\ tasks' = IF call'.tasks.has THEN call'.tasks.val ELSE tasks]_vars

\* the apps request failed and kept a non-empty table while the tasks request
\* of the same call replaced a non-empty task list by another one
C2_Witness ==
    /\ call.op = "update_data" /\ call.en
    /\ ~call.apps.has /\ ports # EmptyDict
    /\ call.tasks.has /\ Len(tasks) = 2

-----------------------------------------------------------------------------
(* C3 *)

\* the ports a host entry holds for a protocol, whatever the slot's shape
EntryPorts(entry, prot) ==
    IF prot \notin DOMAIN entry.prots THEN {}
    ELSE {entry.prots[prot].list[i] : i \in 1..Len(entry.prots[prot].list)}
         \cup {entry.prots[prot].map[n] : n \in DOMAIN entry.prots[prot].map}

HostnamesOnce(hostlist) ==
    \A i, j \in 1..Len(hostlist) : hostlist[i].name = hostlist[j].name => i = j

\* Marathon: two cached tasks listed under name n on one host, the service
\* spec taking every port of the protocol: the host's entry has both ports
MarathonAggregates(n) ==
    LET k == bret.origin[n]
    IN  \A t1, t2 \in TaskIndexes :
            (/\ t1 # t2
             /\ Matches(k, t1) /\ NameOf(k, t1) = n
             /\ Matches(k, t2) /\ NameOf(k, t2) = n
             /\ tasks[t1].host = tasks[t2].host)
            => \A i \in 1..Len(MappingsOf(t1)) :
                   LET m == MappingsOf(t1)[i]
                   IN  NoMasks(k, m.protocol)
                       => \E e \in EntriesOf(bret.hosts[n], tasks[t1].host) :
                              LivePort(t1, m) \in EntryPorts(bret.hosts[n][e], m.protocol)

\* Mesos: two SRV answers of one query naming one host: the host's entry has
\* both ports
MesosAggregates(n) ==
    LET k == bret.origin[n]
    IN  \A prot \in DOMAIN ServiceAt(k).prots :
            NoMasks(k, prot)
            => LET answers == QuerySrv(call.env, GroupFqdn(ServiceAt(k).name, GroupOf(k),
                                                         prot, MesosDomain))
               IN  \A i, j \in 1..Len(answers) :
                       (i # j /\ answers[i].name = answers[j].name)
                       => \E e \in EntriesOf(bret.hosts[n], answers[i].name) :
                              answers[i].port \in EntryPorts(bret.hosts[n][e], prot)

\* C3: in both live backends a hostname appears in at most one host entry of
\* a service, and two matching records (two SRV answers, two cached tasks of
\* the matching app) naming the same hostname put the ports of both into
\* that entry.
C3_OneEntryPerHostnameWithBothPorts ==
    (LiveDone /\ ~bret.raised)
    => \A n \in DOMAIN bret.hosts :
           /\ HostnamesOnce(bret.hosts[n])
           /\ Delegated("marathon_api") => MarathonAggregates(n)
           /\ Delegated("mesos_dns") => MesosAggregates(n)

-----------------------------------------------------------------------------
(* C4 *)

\* the records a legacy slot holds, under a port name or in its list
LegacyHolds(slot, shape, port_name, rec) ==
    /\ slot.shape = shape
    /\ IF shape = "list" THEN In(slot.list, rec)
       ELSE port_name \in DOMAIN slot.map /\ In(slot.map[port_name], rec)

\* C4: with version '0.7' Discovery.compatible loses no resolved host: every
\* port of every host's raw tcp list has its {name, ip, port} record in the
\* service's sequence, and every entry of every host's named tcp map has its
\* record in the list under that port name.
C4_LegacyKeepsEveryHost ==
    (ResolveDone /\ call.ver = "0.7" /\ bret.resolved # {} /\ ~bret.raised)
    => \A n \in DOMAIN bret.hosts :
       \A h \in 1..Len(bret.hosts[n]) :
           LET host == bret.hosts[n][h]
               slot == host.prots["tcp"]
           IN  "tcp" \in DOMAIN host.prots
               => /\ \A i \in 1..Len(slot.list) :
                         /\ n \in DOMAIN ret.legacy
                         /\ LegacyHolds(ret.legacy[n], "list", <<>>,
                                        CompatRecord(host, PyStr(slot.list[i])))
                  /\ \A pn \in DOMAIN slot.map :
                         /\ n \in DOMAIN ret.legacy
                         /\ LegacyHolds(ret.legacy[n], "map", pn,
                                        CompatRecord(host, slot.map[pn]))

-----------------------------------------------------------------------------
(* C9 *)

\* C9: in the Marathon backend's resolve every cached task that matches a
\* service and has an accepted port has its host in the list returned under
\* the derived service name.
C9_EveryMatchingTaskContributes ==
    (Delegated("marathon_api") /\ ~bret.raised)
    => \A n \in DOMAIN bret.hosts :
       \A t \in TaskIndexes :
           LET k == bret.origin[n]
           IN  (/\ Matches(k, t) /\ NameOf(k, t) = n
                /\ \E i \in 1..Len(MappingsOf(t)) : Accepts(k, MappingsOf(t)[i]))
               => EntriesOf(bret.hosts[n], tasks[t].host) # {}

-----------------------------------------------------------------------------
(* C10 *)

\* C10: after any sequence of update_data calls every task of the cached
\* task list has its app id among the keys of the cached port-mapping table.
C10_CachedTasksHavePortMappings ==
    \A t \in TaskIndexes : tasks[t].appId \in DOMAIN ports

\* C10, the consequence: a resolve by the Marathon backend does not fail
\* looking up a cached task's port mappings.
C10_ResolveFindsPortMappings ==
    Delegated("marathon_api") => bret.exc # "KeyError"

-----------------------------------------------------------------------------
(* C5 *)

\* C5: Discovery.resolve calls a backend's resolve only when the app has
\* services, the selected backend name is in the registry and that backend
\* is enabled, and then only that backend's; otherwise it returns an empty
\* mapping, and with no services it asks no backend whether it is enabled.
C5_DelegatesOnlyWhenEnabled ==
    ResolveDone
    => LET discovery == Selected(call.app, call.dd)
           has == Len(call.app.services) > 0
       IN  /\ bret.resolved \subseteq {discovery}
           /\ bret.asked \subseteq {discovery}
           /\ bret.resolved # {}
                  <=> (has /\ discovery \in Registry /\ Enabled(discovery, call.en))
           /\ bret.resolved = {} => ret = EmptyReturn
           /\ ~has => bret.asked = {}

\* a disabled Marathon backend holding cached tasks is selected by an app
\* with services: it is asked enabled() and nothing more
C5_Witness ==
    /\ ResolveDone /\ Len(call.app.services) > 0
    /\ Selected(call.app, call.dd) = "marathon_api" /\ ~call.en
    /\ Len(tasks) > 0 /\ ports # EmptyDict
    /\ bret.asked = {"marathon_api"} /\ bret.resolved = {}
    /\ ret = EmptyReturn

-----------------------------------------------------------------------------
(* C6 *)

\* C6: in a live backend's result every protocol slot of every host is a raw
\* port list when the originating service spec lists no port mask for the
\* protocol and a port-name map when it lists one; no slot holds both, and
\* no slot is used in the other shape during the resolve (which Python
\* answers with a TypeError or an AttributeError).
C6_SlotShapeFollowsSpec ==
    LiveDone
    => /\ bret.exc \notin {"TypeError", "AttributeError"}
       /\ \A n \in DOMAIN bret.hosts :
          \A h \in 1..Len(bret.hosts[n]) :
          \A prot \in DOMAIN bret.hosts[n][h].prots :
              LET k == bret.origin[n]
                  slot == bret.hosts[n][h].prots[prot]
              IN  /\ prot \in DOMAIN ServiceAt(k).prots
                  /\ slot.shape = IF NoMasks(k, prot) THEN "list" ELSE "map"
                  /\ slot.shape = "list" => slot.map = EmptyDict /\ Len(slot.list) > 0
                  /\ slot.shape = "map" => slot.list = <<>> /\ slot.map # EmptyDict

\* one host carries a named tcp map and a raw udp list
C6_Witness ==
    /\ LiveDone
    /\ \E n \in DOMAIN bret.hosts :
       \E h \in 1..Len(bret.hosts[n]) :
           /\ DOMAIN bret.hosts[n][h].prots = {"tcp", "udp"}
           /\ bret.hosts[n][h].prots["tcp"].shape = "map"
           /\ bret.hosts[n][h].prots["udp"].shape = "list"

-----------------------------------------------------------------------------
(* C7 *)

RECURSIVE GroupedOnly(_, _)
GroupedOnly(app, services) ==
    IF Len(services) = 0 THEN <<>>
    ELSE (IF EffectiveGroup(app, Head(services)).has THEN <<Head(services)>> ELSE <<>>)
         \o GroupedOnly(app, Tail(services))

\* the app of the call without its services that have no group
WithoutGroupLess == [call.app EXCEPT !.services = GroupedOnly(call.app, call.app.services)]

\* C7: in both live backends a service spec with no group override in an app
\* with no group is skipped: an error is logged for it, it raises nothing
\* and assigns no key, and resolve ends as it ends for the app without that
\* service, with the same result.
C7_GroupLessServiceSkipped ==
    LiveDone
    => LET discovery == Selected(call.app, call.dd)
           ref == BackendResolve(discovery, WithoutGroupLess, MesosDomain, Cache, call.env)
       IN  /\ bret.raised = ref.raised /\ bret.exc = ref.exc
           /\ ~bret.raised => bret.hosts = ref.hosts
           /\ \A n \in DOMAIN bret.hosts : Grouped(bret.origin[n])
           /\ Delegated("mesos_dns") => ~bret.raised
           /\ ~bret.raised
                  => \A k \in ServiceIndexes :
                         ~Grouped(k)
                         => In(log, LogLine("error", "group not found", ServiceAt(k).name))

\* an app with no group: its first service has no group either, its second
\* one carries its own and resolves to a host
C7_Witness ==
    /\ LiveDone
    /\ ~call.app.group.has
    /\ Len(call.app.services) = 2
    /\ ~Grouped(1) /\ Grouped(2)
    /\ \E n \in DOMAIN bret.hosts : Len(bret.hosts[n]) > 0

-----------------------------------------------------------------------------
(* C8 *)

\* the names the DNS backend queries for the service spec k
SrvQueries(k) ==
    UNION {IF NoMasks(k, prot)
           THEN {GroupFqdn(ServiceAt(k).name, GroupOf(k), prot, MesosDomain)}
           ELSE {PortFqdn(ServiceAt(k).prots[prot][i], ServiceAt(k).name, GroupOf(k),
                          prot, MesosDomain) : i \in 1..Len(ServiceAt(k).prots[prot])} :
           prot \in DOMAIN ServiceAt(k).prots}

\* C8 as claimed: a service for which nothing was resolved is no key of a live
\* backend's result, which never maps a name to an empty host list.
C8_NoEmptyHostList ==
    (LiveDone /\ ~bret.raised)
    => \A n \in DOMAIN bret.hosts : Len(bret.hosts[n]) > 0

\* C8 as amended: the keys of the result are the services the backend went
\* through (DNS backend: every service spec that has a group; Marathon
\* backend: every name derived from a cached task that matches a service
\* spec that has a group), and such a key maps to an empty host list exactly
\* when nothing was resolved for it (DNS backend: no SRV answer to any of its
\* queries; Marathon backend: only if a matching task has no accepted port).
C8_KeysAreTheServicesGoneThrough ==
    /\ Delegated("mesos_dns")
           => /\ ~bret.raised
              /\ DOMAIN bret.hosts = {ServiceAt(k).name : k \in {x \in ServiceIndexes : Grouped(x)}}
              /\ \A n \in DOMAIN bret.hosts :
                     Len(bret.hosts[n]) = 0
                         <=> \A q \in SrvQueries(bret.origin[n]) : Len(QuerySrv(call.env, q)) = 0
    /\ (Delegated("marathon_api") /\ ~bret.raised)
           => /\ DOMAIN bret.hosts =
                     {NameOf(pair[1], pair[2]) :
                          pair \in {x \in ServiceIndexes \X TaskIndexes : Matches(x[1], x[2])}}
              /\ \A n \in DOMAIN bret.hosts :
                     Len(bret.hosts[n]) = 0
                         => \E t \in TaskIndexes :
                                /\ Matches(bret.origin[n], t) /\ NameOf(bret.origin[n], t) = n
                                /\ \A i \in 1..Len(MappingsOf(t)) :
                                       ~Accepts(bret.origin[n], MappingsOf(t)[i])

\* the DNS backend returns a service that has a group and no SRV answer as a
\* key with an empty host list, beside a service that resolved to a host
C8_Witness ==
    /\ Delegated("mesos_dns")
    /\ \E n \in DOMAIN bret.hosts : Len(bret.hosts[n]) = 0
    /\ \E n \in DOMAIN bret.hosts : Len(bret.hosts[n]) > 0

====
